---------------------------- MODULE Spec2Model ----------------------------
(***************************************************************************)
(* Kropki Sudoku solver (src/backtracking.py): constraint derivation,      *)
(* domain initialisation and the backtracking search with MRV, degree      *)
(* heuristic and forward checking, as a state machine over the recursion   *)
(* stack of CSP.backtrack.                                                 *)
(***************************************************************************)
EXTENDS Integers, Sequences, FiniteSets, TLC

VARIABLES
    input_board,   \* the board grid as it stands in the input file
    board,         \* the list of lists read_file returns, mutated by backtrack
    horizontal,    \* self.horizontal
    vertical,      \* self.vertical
    variables,     \* self.variables
    constraints,   \* self.constraints: var -> insertion-ordered dict
    domains,       \* self.domains: var -> list of values
    assignment,    \* the assignment dict passed down the recursion
    stack,         \* the frames of backtrack that are inside their for loop
    retval,        \* the value the innermost finished call of backtrack returned
    pc,            \* where solve / backtrack stands
    probe          \* arguments and result of one direct call of satisfy_constraint

vars == << input_board, board, horizontal, vertical, variables, constraints,
           domains, assignment, stack, retval, pc, probe >>

-----------------------------------------------------------------------------
(* Sizes fixed by the program *)

rows == 9

cols == 9

subgrid == 3

max_value == 9

(* Bounds of the input family that is explored *)

NumFree == 4

NumMarks == 3

NumAlt == 2

-----------------------------------------------------------------------------
(* Generic helpers over Python lists and dicts *)

Min2(a, b) == IF a <= b THEN a ELSE b

Max2(a, b) == IF a >= b THEN a ELSE b

Abs(a) == IF a < 0 THEN -a ELSE a

Range(s) == {s[i] : i \in 1..Len(s)}

\* list.remove(x): drops the first occurrence of x
RECURSIVE ListRemove(_, _)
ListRemove(list, x) ==
    IF list = <<>> THEN <<>>
    ELSE IF Head(list) = x THEN Tail(list)
    ELSE <<Head(list)>> \o ListRemove(Tail(list), x)

\* list.sort() on integers, duplicates kept
RECURSIVE Insert(_, _)
Insert(sorted, x) ==
    IF sorted = <<>> THEN <<x>>
    ELSE IF x <= Head(sorted) THEN <<x>> \o sorted
    ELSE <<Head(sorted)>> \o Insert(Tail(sorted), x)

RECURSIVE ListSort(_)
ListSort(list) ==
    IF list = <<>> THEN <<>> ELSE Insert(ListSort(Tail(list)), Head(list))

\* key in dict and dict[key] = kind for an insertion-ordered dict kept
\* as the sequence of its items
HasKey(dict, cell) == \E i \in 1..Len(dict) : dict[i].cell = cell

DictPut(dict, cell, kind) ==
    IF HasKey(dict, cell)
    THEN [i \in 1..Len(dict) |->
            IF dict[i].cell = cell THEN [cell |-> cell, kind |-> kind] ELSE dict[i]]
    ELSE Append(dict, [cell |-> cell, kind |-> kind])

Keys(dict) == {dict[i].cell : i \in 1..Len(dict)}

\* all cells in the order of two nested range() loops
AllCells == [k \in 1..(rows * cols) |-> <<(k - 1) \div cols, (k - 1) % cols>>]

-----------------------------------------------------------------------------
(* Initialization: set_variables, set_constraints *)

\* the unassigned cells of board b, in row-major order
set_variables(b) == SelectSeq(AllCells, LAMBDA cell : b[cell[1]][cell[2]] = 0)

\* the four adjacency steps of set_constraints for the cell (cur_row, cur_col)
AddNeighbors(h, v, cur_row, cur_col) ==
    LET d0 == <<>>
        d1 == IF cur_col - 1 >= 0 /\ h[cur_row][cur_col - 1] # 0
              THEN DictPut(d0, <<cur_row, cur_col - 1>>, h[cur_row][cur_col - 1])
              ELSE d0
        d2 == IF cur_col < cols - 1 /\ h[cur_row][cur_col] # 0
              THEN DictPut(d1, <<cur_row, cur_col + 1>>, h[cur_row][cur_col])
              ELSE d1
        d3 == IF cur_row - 1 >= 0 /\ v[cur_row - 1][cur_col] # 0
              THEN DictPut(d2, <<cur_row - 1, cur_col>>, v[cur_row - 1][cur_col])
              ELSE d2
        d4 == IF cur_row < rows - 1 /\ v[cur_row][cur_col] # 0
              THEN DictPut(d3, <<cur_row + 1, cur_col>>, v[cur_row][cur_col])
              ELSE d3
    IN  d4

\* the row scan without the test that the cell is not yet a key
RECURSIVE AddSameRow_overwrite(_, _, _, _)
AddSameRow_overwrite(dict, cur_row, cur_col, iterate_col) ==
    IF iterate_col >= cols THEN dict
    ELSE AddSameRow_overwrite(
            IF iterate_col # cur_col
            THEN DictPut(dict, <<cur_row, iterate_col>>, 3)
            ELSE dict,
            cur_row, cur_col, iterate_col + 1)

\* for iterate_col in range(self.cols), from iterate_col on
RECURSIVE AddSameRow(_, _, _, _)
AddSameRow(dict, cur_row, cur_col, iterate_col) ==
    IF iterate_col >= cols THEN dict
    ELSE AddSameRow(
            IF iterate_col # cur_col /\ ~HasKey(dict, <<cur_row, iterate_col>>)
            THEN DictPut(dict, <<cur_row, iterate_col>>, 3)
            ELSE dict,
            cur_row, cur_col, iterate_col + 1)

\* for iterate_row in range(self.rows), from iterate_row on
RECURSIVE AddSameCol(_, _, _, _)
AddSameCol(dict, cur_row, cur_col, iterate_row) ==
    IF iterate_row >= rows THEN dict
    ELSE AddSameCol(
            IF iterate_row # cur_row /\ ~HasKey(dict, <<iterate_row, cur_col>>)
            THEN DictPut(dict, <<iterate_row, cur_col>>, 3)
            ELSE dict,
            cur_row, cur_col, iterate_row + 1)

\* for i in range(3): for j in range(3), from the k-th pair (i, j) on
RECURSIVE AddSubgrid(_, _, _, _)
AddSubgrid(dict, cur_row, cur_col, k) ==
    IF k >= subgrid * subgrid THEN dict
    ELSE LET i == k \div subgrid
             j == k % subgrid
             iterate_row == (cur_row \div subgrid) * subgrid + i
             iterate_col == (cur_col \div subgrid) * subgrid + j
         IN  AddSubgrid(
                IF /\ iterate_row # cur_row
                   /\ iterate_col # cur_col
                   /\ ~HasKey(dict, <<iterate_row, iterate_col>>)
                THEN DictPut(dict, <<iterate_row, iterate_col>>, 3)
                ELSE dict,
                cur_row, cur_col, k + 1)

\* self.constraints[var] as set_constraints leaves it
ConstraintsOf(h, v, var) ==
    LET cur_row == var[1]
        cur_col == var[2]
    IN  AddSubgrid(
            AddSameCol(
                AddSameRow(AddNeighbors(h, v, cur_row, cur_col), cur_row, cur_col, 0),
                cur_row, cur_col, 0),
            cur_row, cur_col, 0)

set_constraints(vs, h, v) == [var \in Range(vs) |-> ConstraintsOf(h, v, var)]

-----------------------------------------------------------------------------
(* Consistency: satisfy_constraint, is_consistent, set_domain *)

\* RatioIsTwo with floor division (//) in place of true division
RatioIsTwo_floor(value, neighbor_value) ==
    Max2(neighbor_value, value) \div Min2(neighbor_value, value) = 2

\* max(neighbor_value, value) / min(neighbor_value, value) != 2, the true
\* division compared exactly: the quotient is 2 and nothing remains
RatioIsTwo(value, neighbor_value) ==
    LET hi == Max2(neighbor_value, value)
        lo == Min2(neighbor_value, value)
    IN  hi \div lo = 2 /\ hi % lo = 0

satisfy_constraint(value, neighbor_value, constraint) ==
    IF neighbor_value = 0 THEN TRUE
    ELSE CASE constraint = 1 -> ~(Abs(neighbor_value - value) # 1)
           [] constraint = 2 -> RatioIsTwo(value, neighbor_value)
           [] constraint = 3 -> ~(neighbor_value = value)
           [] OTHER -> TRUE

is_consistent(cons, var, value, b) ==
    \A i \in 1..Len(cons[var]) :
        LET neighbor == cons[var][i].cell
            neighbor_value == b[neighbor[1]][neighbor[2]]
        IN  satisfy_constraint(value, neighbor_value, cons[var][i].kind)

\* range(1, 10) as a list
CandidateValues == [value \in 1..max_value |-> value]

\* DomainOf with range(1, 9): the value 9 is never a candidate
DomainOf_short(cons, var, b) ==
    SelectSeq(SubSeq(CandidateValues, 1, max_value - 1),
              LAMBDA value : is_consistent(cons, var, value, b))

DomainOf(cons, var, b) ==
    SelectSeq(CandidateValues, LAMBDA value : is_consistent(cons, var, value, b))

set_domain(vs, cons, b) == [var \in Range(vs) |-> DomainOf(cons, var, b)]

-----------------------------------------------------------------------------
(* Variable and value ordering *)

\* the key of the degree heuristic: neighbors of var that are not in assignment
Degree(cons, asg, var) ==
    Cardinality({i \in 1..Len(cons[var]) : cons[var][i].cell \notin DOMAIN asg})

\* select_unassigned_variable without MRV: the first unassigned variable
select_first_unassigned(vs, cons, doms, asg) ==
    SelectSeq(vs, LAMBDA var : var \notin DOMAIN asg)[1]

\* select_unassigned_variable that forgets to leave out the assigned variables
select_among_all(vs, cons, doms, asg) ==
    LET mrv_value == CHOOSE m \in {Len(doms[vs[i]]) : i \in 1..Len(vs)} :
                        \A i \in 1..Len(vs) : m <= Len(doms[vs[i]])
    IN  SelectSeq(vs, LAMBDA var : Len(doms[var]) = mrv_value)[1]

select_unassigned_variable(vs, cons, doms, asg) ==
    LET unassigned == SelectSeq(vs, LAMBDA var : var \notin DOMAIN asg)
        mrv_value == CHOOSE m \in {Len(doms[unassigned[i]]) : i \in 1..Len(unassigned)} :
                        \A i \in 1..Len(unassigned) : m <= Len(doms[unassigned[i]])
        mrv_vars == SelectSeq(unassigned, LAMBDA var : Len(doms[var]) = mrv_value)
        \* max(list, key): the first item whose key no other item exceeds
        first_max == CHOOSE i \in 1..Len(mrv_vars) :
                        /\ \A j \in 1..Len(mrv_vars) :
                              Degree(cons, asg, mrv_vars[j]) <= Degree(cons, asg, mrv_vars[i])
                        /\ \A j \in 1..(i - 1) :
                              Degree(cons, asg, mrv_vars[j]) < Degree(cons, asg, mrv_vars[i])
    IN  IF Len(mrv_vars) = 1 THEN mrv_vars[1] ELSE mrv_vars[first_max]

\* the live list self.domains[var], not a copy
order_domain_values(doms, var) == doms[var]

-----------------------------------------------------------------------------
(* Inference: prepare_inference, inference, backtrack_inference *)

prepare_inference(cons, doms, var) ==
    [neighbor \in Keys(cons[var]) \cap DOMAIN doms |-> doms[neighbor]]

\* for domain in domains_to_remove: self.domains[neighbor].remove(domain)
RECURSIVE RemoveEach(_, _)
RemoveEach(list, domains_to_remove) ==
    IF domains_to_remove = <<>> THEN list
    ELSE RemoveEach(ListRemove(list, Head(domains_to_remove)), Tail(domains_to_remove))

\* inference that removes nothing from the neighbor's list
Pruned_nothing(list, value, constraint) == list

\* the neighbor's list once inference has handled that neighbor
Pruned(list, value, constraint) ==
    LET domains_to_remove ==
            SelectSeq(list, LAMBDA neighbor_value :
                                ~satisfy_constraint(value, neighbor_value, constraint))
    IN  RemoveEach(list, domains_to_remove)

\* the loop of inference from the i-th item of self.constraints[var] on;
\* the result is what inference returns and the domains it leaves
RECURSIVE InferenceFrom(_, _, _, _, _)
InferenceFrom(cons, doms, var, value, i) ==
    IF i > Len(cons[var]) THEN [ok |-> TRUE, domains |-> doms]
    ELSE LET neighbor == cons[var][i].cell
         IN  IF neighbor \notin DOMAIN doms
             THEN InferenceFrom(cons, doms, var, value, i + 1)
             ELSE LET list == Pruned(doms[neighbor], value, cons[var][i].kind)
                      after == [doms EXCEPT ![neighbor] = list]
                  IN  IF Len(list) = 0
                      THEN [ok |-> FALSE, domains |-> after]
                      ELSE InferenceFrom(cons, after, var, value, i + 1)

inference(cons, doms, var, value) == InferenceFrom(cons, doms, var, value, 1)

\* append the values of saved that list lacks, in the order of saved
RECURSIVE AppendMissing(_, _)
AppendMissing(list, saved) ==
    IF saved = <<>> THEN list
    ELSE AppendMissing(
            IF Head(saved) \notin Range(list) THEN Append(list, Head(saved)) ELSE list,
            Tail(saved))

\* backtrack_inference that restores nothing
backtrack_inference_none(cons, doms, var, var_domains) == doms

\* backtrack_inference without the final sort
backtrack_inference_unsorted(cons, doms, var, var_domains) ==
    [neighbor \in DOMAIN doms |->
        IF neighbor \in Keys(cons[var])
        THEN AppendMissing(doms[neighbor], var_domains[neighbor])
        ELSE doms[neighbor]]

backtrack_inference(cons, doms, var, var_domains) ==
    [neighbor \in DOMAIN doms |->
        IF neighbor \in Keys(cons[var])
        THEN ListSort(AppendMissing(doms[neighbor], var_domains[neighbor]))
        ELSE doms[neighbor]]

-----------------------------------------------------------------------------
(* The input files that are explored: a solved grid in which the cells of   *)
(* BlankCells are all blank or all kept, each of the first NumFree cells of *)
(* FreeCells is left blank, kept, or (the first NumAlt of them) overwritten *)
(* by another value, and marker grids that are zero except on the first     *)
(* NumMarks edges of MarkEdges. Blank, the cells of rows 0..2 in columns 0  *)
(* and 3 can be filled in two ways, of which a dot between (1,0) and (2,0)  *)
(* allows one.                                                              *)

BaseValue(r, c) == max_value - ((3 * (r % subgrid) + r \div subgrid + c) % max_value)

BlankCells == { <<0, 1>>, <<0, 3>>, <<1, 3>>, <<2, 3>> }

FreeCells == << <<0, 0>>, <<1, 0>>, <<2, 0>>, <<1, 1>>, <<2, 1>>, <<0, 2>> >>

AltValues == << 7, 9, 9, 9, 9, 9 >>

MarkEdges == << [grid |-> "h", r |-> 0, c |-> 0], [grid |-> "v", r |-> 1, c |-> 0],
                [grid |-> "v", r |-> 0, c |-> 3], [grid |-> "h", r |-> 1, c |-> 0],
                [grid |-> "h", r |-> 2, c |-> 0] >>

FreeCount == Min2(NumFree, Len(FreeCells))

MarkCount == Min2(NumMarks, Len(MarkEdges))

\* pick[i] = 0: blank, 1: the solved grid's value, 2: the other value
Picks == {pick \in [1..FreeCount -> 0..2] : \A i \in 1..FreeCount : pick[i] = 2 => i <= NumAlt}

BoardOf(pick, blank) ==
    [r \in 0..(rows - 1) |-> [c \in 0..(cols - 1) |->
        IF blank /\ <<r, c>> \in BlankCells THEN 0
        ELSE IF \E i \in 1..FreeCount : FreeCells[i] = <<r, c>>
        THEN LET i == CHOOSE i \in 1..FreeCount : FreeCells[i] = <<r, c>>
             IN  CASE pick[i] = 0 -> 0
                   [] pick[i] = 1 -> BaseValue(r, c)
                   [] OTHER -> AltValues[i]
        ELSE BaseValue(r, c)]]

GridOf(marks, grid, nrows) ==
    [r \in 0..(nrows - 1) |-> [c \in 0..(cols - 1) |->
        IF \E i \in 1..MarkCount : MarkEdges[i] = [grid |-> grid, r |-> r, c |-> c]
        THEN marks[CHOOSE i \in 1..MarkCount : MarkEdges[i] = [grid |-> grid, r |-> r, c |-> c]]
        ELSE 0]]

-----------------------------------------------------------------------------
(* solve and backtrack as a state machine *)

NoProbe == [value |-> 0, neighbor_value |-> 0, constraint |-> 0, result |-> "none"]

Init ==
    /\ input_board = <<>>
    /\ board = <<>>
    /\ horizontal = <<>>
    /\ vertical = <<>>
    /\ variables = <<>>
    /\ constraints = <<>>
    /\ domains = <<>>
    /\ assignment = <<>>
    /\ stack = <<>>
    /\ retval = "unset"
    /\ pc = "read_file"
    /\ probe = NoProbe

\* read_file: the board and the two marker grids of the input file
read_file(markers) ==
    /\ pc = "read_file"
    /\ \E pick \in Picks, blank \in BOOLEAN, marks \in [1..MarkCount -> markers] :
          /\ input_board' = BoardOf(pick, blank)
          /\ board' = BoardOf(pick, blank)
          /\ horizontal' = GridOf(marks, "h", rows)
          /\ vertical' = GridOf(marks, "v", rows - 1)
    /\ pc' = "set_variables"
    /\ UNCHANGED << variables, constraints, domains, assignment, stack, retval, probe >>

SetVariables ==
    /\ pc = "set_variables"
    /\ variables' = set_variables(board)
    /\ pc' = "set_constraints"
    /\ UNCHANGED << input_board, board, horizontal, vertical, constraints, domains,
                    assignment, stack, retval, probe >>

SetConstraints ==
    /\ pc = "set_constraints"
    /\ constraints' = set_constraints(variables, horizontal, vertical)
    /\ pc' = "set_domain"
    /\ UNCHANGED << input_board, board, horizontal, vertical, variables, domains,
                    assignment, stack, retval, probe >>

\* set_domain, then solve calls backtrack(board, {})
SetDomain ==
    /\ pc = "set_domain"
    /\ domains' = set_domain(variables, constraints, board)
    /\ assignment' = <<>>
    /\ pc' = "backtrack"
    /\ UNCHANGED << input_board, board, horizontal, vertical, variables, constraints,
                    stack, retval, probe >>

\* is_complete off by one: one variable may still be missing
is_complete_early(vs, asg) == Len(vs) <= Cardinality(DOMAIN asg) + 1

\* the test that opens backtrack
is_complete(vs, asg) == Len(vs) = Cardinality(DOMAIN asg)

\* backtrack, assignment complete: return board
BacktrackComplete ==
    /\ pc = "backtrack"
    /\ is_complete(variables, assignment)
    /\ retval' = "board"
    /\ pc' = "return"
    /\ UNCHANGED << input_board, board, horizontal, vertical, variables, constraints,
                    domains, assignment, stack, probe >>

\* backtrack, assignment incomplete: select the variable and enter the for loop.
\* A frame holds the locals var, value and var_domains and the position of the
\* for loop in the list; list_at_entry and domains_before are history, read by
\* no action: the list of var when the frame was entered, and the whole domain
\* map as it was when prepare_inference was last called in the frame.
BacktrackSelect ==
    /\ pc = "backtrack"
    /\ ~is_complete(variables, assignment)
    /\ LET var == select_unassigned_variable(variables, constraints, domains, assignment)
       IN  stack' = Append(stack,
                      [var |-> var, index |-> 0, value |-> 0, var_domains |-> <<>>,
                       list_at_entry |-> domains[var], domains_before |-> <<>>])
    /\ pc' = "for"
    /\ UNCHANGED << input_board, board, horizontal, vertical, variables, constraints,
                    domains, assignment, retval, probe >>

Top == stack[Len(stack)]

SetTop(frame) == [stack EXCEPT ![Len(stack)] = frame]

\* one pass of the for loop over the live list: the next value, the
\* consistency test, the assignment, prepare_inference and inference
ForTry ==
    /\ pc = "for"
    /\ LET var == Top.var
           list == order_domain_values(domains, var)
       IN  /\ Top.index < Len(list)
           /\ LET value == list[Top.index + 1]
              IN  IF is_consistent(constraints, var, value, board)
                  THEN LET inferred == inference(constraints, domains, var, value)
                       IN  /\ assignment' = (var :> value) @@ assignment
                           /\ board' = [board EXCEPT ![var[1]][var[2]] = value]
                           /\ stack' = SetTop([Top EXCEPT
                                  !.index = Top.index + 1,
                                  !.value = value,
                                  !.var_domains = prepare_inference(constraints, domains, var),
                                  !.domains_before = domains])
                           /\ domains' = inferred.domains
                           /\ pc' = IF inferred.ok THEN "backtrack" ELSE "undo"
                  ELSE /\ stack' = SetTop([Top EXCEPT !.index = Top.index + 1, !.value = value])
                       /\ UNCHANGED << assignment, board, domains, pc >>
    /\ UNCHANGED << input_board, horizontal, vertical, variables, constraints, retval, probe >>

\* the for loop has run off the end of the list: return None
ForExhausted ==
    /\ pc = "for"
    /\ Top.index >= Len(order_domain_values(domains, Top.var))
    /\ stack' = SubSeq(stack, 1, Len(stack) - 1)
    /\ retval' = "None"
    /\ pc' = "return"
    /\ UNCHANGED << input_board, board, horizontal, vertical, variables, constraints,
                    domains, assignment, probe >>

\* the recursive call returned a board: the frame returns it too
FrameReturnSolution ==
    /\ pc = "return"
    /\ stack # <<>>
    /\ retval # "None"
    /\ stack' = SubSeq(stack, 1, Len(stack) - 1)
    /\ UNCHANGED << input_board, board, horizontal, vertical, variables, constraints,
                    domains, assignment, retval, pc, probe >>

\* the recursive call returned None: the frame goes on to undo its assignment
FrameReturnNone ==
    /\ pc = "return"
    /\ stack # <<>>
    /\ retval = "None"
    /\ pc' = "undo"
    /\ UNCHANGED << input_board, board, horizontal, vertical, variables, constraints,
                    domains, assignment, stack, retval, probe >>

\* the undoing that forgets to clear the cell of the board
Undo_keeps_cell ==
    /\ pc = "undo"
    /\ domains' = backtrack_inference(constraints, domains, Top.var, Top.var_domains)
    /\ assignment' = [x \in DOMAIN assignment \ {Top.var} |-> assignment[x]]
    /\ pc' = "for"
    /\ UNCHANGED << input_board, board, horizontal, vertical, variables, constraints,
                    stack, retval, probe >>

\* backtrack_inference, then the cell and the assignment entry are cleared
Undo ==
    /\ pc = "undo"
    /\ LET var == Top.var
       IN  /\ domains' = backtrack_inference(constraints, domains, var, Top.var_domains)
           /\ board' = [board EXCEPT ![var[1]][var[2]] = 0]
           /\ assignment' = [x \in DOMAIN assignment \ {var} |-> assignment[x]]
    /\ pc' = "for"
    /\ UNCHANGED << input_board, horizontal, vertical, variables, constraints, stack,
                    retval, probe >>

\* solve receives the result: print_solution, or the message and sys.exit(1)
SolveReturn ==
    /\ pc = "return"
    /\ stack = <<>>
    /\ pc' = IF retval = "None" THEN "exit" ELSE "print_solution"
    /\ UNCHANGED << input_board, board, horizontal, vertical, variables, constraints,
                    domains, assignment, stack, retval, probe >>

ReadFile == read_file({0, 1, 2})

Next ==
    \/ ReadFile
    \/ SetVariables
    \/ SetConstraints
    \/ SetDomain
    \/ BacktrackComplete
    \/ BacktrackSelect
    \/ ForTry
    \/ ForExhausted
    \/ FrameReturnSolution
    \/ FrameReturnNone
    \/ Undo
    \/ SolveReturn

Spec == Init /\ [][Next]_vars

-----------------------------------------------------------------------------
(* Vocabulary of the properties *)

\* solve got a board and writes it out / solve got None and exits with 1
Solved == pc = "print_solution"

Failed == pc = "exit"

\* the search has been entered: the initialisation of solve is over
Searching == pc \in {"backtrack", "for", "undo", "return", "exit", "print_solution"}

\* the state in which solve calls backtrack(board, {})
AtFirstCall == pc = "backtrack" /\ stack = <<>>

Rows == 0..(rows - 1)

Cols == 0..(cols - 1)

CellsOfRow(r) == {<<r, c>> : c \in Cols}

CellsOfCol(c) == {<<r, c>> : r \in Rows}

CellsOfBox(k) == {<<subgrid * (k \div subgrid) + i, subgrid * (k % subgrid) + j>> :
                    i \in 0..(subgrid - 1), j \in 0..(subgrid - 1)}

Units == {CellsOfRow(r) : r \in Rows} \cup {CellsOfCol(c) : c \in Cols}
            \cup {CellsOfBox(k) : k \in 0..(subgrid * subgrid - 1)}

At(b, cell) == b[cell[1]][cell[2]]

\* each value 1..9 exactly once in every row, column and box
ValidGrid(b) == \A unit \in Units : {At(b, cell) : cell \in unit} = 1..max_value

\* two cells of one row, column or box hold the same nonzero value
HasDuplicate(b) ==
    \E unit \in Units : \E x \in unit, y \in unit :
        x # y /\ At(b, x) # 0 /\ At(b, x) = At(b, y)

\* the rule of a marker, stated on the two values
WhiteDot(a, b) == a - b = 1 \/ b - a = 1

BlackDot(a, b) == a = 2 * b \/ b = 2 * a

\* every marked pair of the two marker grids obeys its marker
MarkersHold(b) ==
    /\ \A r \in Rows, c \in 0..(cols - 2) :
          /\ horizontal[r][c] = 1 => WhiteDot(b[r][c], b[r][c + 1])
          /\ horizontal[r][c] = 2 => BlackDot(b[r][c], b[r][c + 1])
    /\ \A r \in 0..(rows - 2), c \in Cols :
          /\ vertical[r][c] = 1 => WhiteDot(b[r][c], b[r + 1][c])
          /\ vertical[r][c] = 2 => BlackDot(b[r][c], b[r + 1][c])

\* compatibility of two values under a recorded constraint kind
Compatible(a, b, kind) ==
    CASE kind = 1 -> WhiteDot(a, b)
      [] kind = 2 -> BlackDot(a, b)
      [] kind = 3 -> a # b
      [] OTHER -> TRUE

\* value in cell var agrees with every nonzero neighbor of var's constraint map
FitsAt(b, var, value) ==
    \A i \in 1..Len(constraints[var]) :
        At(b, constraints[var][i].cell) # 0
            => Compatible(value, At(b, constraints[var][i].cell), constraints[var][i].kind)

\* some assignment of 1..9 to the variables from the i-th on completes b so
\* that every variable agrees with all its neighbors
RECURSIVE CanComplete(_, _)
CanComplete(b, i) ==
    IF i > Len(variables)
    THEN \A k \in 1..Len(variables) : FitsAt(b, variables[k], At(b, variables[k]))
    ELSE \E value \in 1..max_value :
            /\ FitsAt(b, variables[i], value)
            /\ CanComplete([b EXCEPT ![variables[i][1]][variables[i][2]] = value], i + 1)

StrictlyAscending(list) == \A i \in 1..(Len(list) - 1) : list[i] < list[i + 1]

-----------------------------------------------------------------------------
(* The claims *)

\* C1: whenever the search returns a board as the solution, every row, every
\* column and every 3x3 box of it holds each value 1..9 exactly once, the
\* pre-filled cells included.
C1_SolutionIsValidGrid == Solved => ValidGrid(board)

\* C2: in every board returned as a solution, every pair of adjacent cells
\* with a white dot differs by exactly 1 and every pair with a black dot has
\* one value double the other, pre-filled pairs included.
C2_SolutionObeysMarkers == Solved => MarkersHold(board)

\* C3: the search reports failure only when no assignment of 1..9 to the
\* unassigned cells satisfies every constraint of the constraint map, and
\* returns a board whenever such an assignment exists.
C3_Complete == (Solved \/ Failed) => (Solved <=> CanComplete(input_board, 1))

\* C3 witness: a search that went back over at least one tentative assignment
\* and then reported failure, and rightly so.
C3_Witness ==
    /\ Failed
    /\ Len(variables) >= 2
    /\ \A var \in DOMAIN domains : domains[var] # <<>>
    /\ ~CanComplete(input_board, 1)

\* C4: a returned board is never partial: every variable is in the assignment
\* and each of the 81 cells holds a value in 1..9; the only other outcome is
\* None.
C4_NoPartialBoard ==
    /\ Solved => /\ \A i \in 1..Len(variables) : variables[i] \in DOMAIN assignment
                 /\ \A r \in Rows, c \in Cols : board[r][c] \in 1..max_value
                 /\ retval = "board"
    /\ Failed => retval = "None"

\* C4 witness: a board is returned after the search filled several cells.
C4_Witness == Solved /\ Len(variables) >= 3

\* the input breaks a rule among its own cells
InputViolates == ~ValidGrid(input_board) \/ ~MarkersHold(input_board)

\* C5: a board without unassigned cells that violates a constraint is
\* reported as failure and left unchanged.
C5_FullInvalidBoardFails ==
    ((Solved \/ Failed) /\ variables = <<>> /\ InputViolates)
        => (Failed /\ board = input_board)

\* C6: an input in which two pre-filled cells of one row, column or box hold
\* the same value never ends with a board returned as the solution.
C6_DuplicateInputFails == (pc # "read_file" /\ HasDuplicate(input_board)) => ~Solved

\* some variable's domain is empty once set_domain has run
EmptyInitialDomain ==
    \E var \in DOMAIN constraints : DomainOf(constraints, var, input_board) = <<>>

\* C7: when a variable's domain is empty after domain initialisation, failure
\* is reported at once: no cell is written, nothing enters the assignment, no
\* domain changes, no value is tried.
C7_EmptyDomainFailsAtOnce ==
    (Searching /\ EmptyInitialDomain)
        => /\ board = input_board
           /\ assignment = <<>>
           /\ domains = set_domain(variables, constraints, input_board)
           /\ \A k \in 1..Len(stack) : stack[k].index = 0
           /\ Len(stack) <= 1
           /\ pc \notin {"undo", "print_solution"}

\* C7 witness: failure reported although the first variable of the list had
\* values to try.
C7_Witness ==
    /\ Failed
    /\ EmptyInitialDomain
    /\ Len(variables) >= 2
    /\ domains[variables[1]] # <<>>

\* C8: the initial domain of every unassigned cell is the ascending,
\* duplicate-free list of exactly the values 1..9 compatible with every
\* nonzero neighbor of its constraint map; next to a pre-filled 9 across a
\* white dot it is contained in {8}.
C8_InitialDomains ==
    AtFirstCall =>
        \A var \in Range(variables) :
            /\ StrictlyAscending(domains[var])
            /\ Range(domains[var]) = {value \in 1..max_value : FitsAt(board, var, value)}
            /\ \A i \in 1..Len(constraints[var]) :
                  (constraints[var][i].kind = 1 /\ At(board, constraints[var][i].cell) = 9)
                      => Range(domains[var]) \subseteq {8}

\* C8 witness: (0,0) pre-filled with 9, a white dot to the unassigned (0,1).
C8_Witness ==
    /\ AtFirstCall
    /\ board[0][0] = 9
    /\ horizontal[0][0] = 1
    /\ <<0, 1>> \in DOMAIN domains
    /\ domains[<<0, 1>>] = <<8>>
    /\ \E var \in DOMAIN domains : Len(domains[var]) >= 2

-----------------------------------------------------------------------------
(* satisfy_constraint called directly on every value, neighbor value and kind *)

InitProbe ==
    /\ input_board = <<>>
    /\ board = <<>>
    /\ horizontal = <<>>
    /\ vertical = <<>>
    /\ variables = <<>>
    /\ constraints = <<>>
    /\ domains = <<>>
    /\ assignment = <<>>
    /\ stack = <<>>
    /\ retval = "unset"
    /\ pc = "satisfy_constraint"
    /\ probe \in [value : 1..max_value, neighbor_value : 0..max_value,
                  constraint : {1, 2, 3}, result : {"none"}]

CallSatisfyConstraint ==
    /\ pc = "satisfy_constraint"
    /\ probe.result = "none"
    /\ probe' = [probe EXCEPT !.result =
                    IF satisfy_constraint(probe.value, probe.neighbor_value, probe.constraint)
                    THEN "True" ELSE "False"]
    /\ UNCHANGED << input_board, board, horizontal, vertical, variables, constraints,
                    domains, assignment, stack, retval, pc >>

SpecProbe == InitProbe /\ [][CallSatisfyConstraint]_vars

\* C9: satisfy_constraint accepts every value next to an unassigned (0)
\* neighbor; otherwise it accepts under kind 1 iff the values differ by
\* exactly 1, under kind 2 iff one is exactly double the other, under kind 3
\* iff they differ.
C9_SatisfyConstraint ==
    probe.result # "none" =>
        (probe.result = "True" <=>
            \/ probe.neighbor_value = 0
            \/ probe.constraint = 1 /\ WhiteDot(probe.value, probe.neighbor_value)
            \/ probe.constraint = 2 /\ BlackDot(probe.value, probe.neighbor_value)
            \/ probe.constraint = 3 /\ probe.value # probe.neighbor_value)

\* C9 witness: the black-dot pair (3, 6) is accepted.
C9_Witness ==
    probe = [value |-> 3, neighbor_value |-> 6, constraint |-> 2, result |-> "True"]

-----------------------------------------------------------------------------
(* Forward checking and its undoing *)

\* the for loop is back at its head after an undone tentative assignment
AfterUndo == pc = "for" /\ Top.index > 0

\* C11: once backtrack_inference has undone a tentative assignment, whether
\* its inference failed or the recursive call returned None, every domain of
\* the domain map is the sequence it was just before that inference, and is
\* strictly ascending (no duplicates).
C11_RestoreExact ==
    AfterUndo =>
        /\ domains = Top.domains_before
        /\ \A var \in DOMAIN domains : StrictlyAscending(domains[var])

\* an assignment is undone after a deeper frame ran out of values, and the
\* assigned value was in the list of more than one neighbor before inference
C11_Witness ==
    /\ AfterUndo
    /\ retval = "None"
    /\ Len(stack) >= 2
    /\ \E a, b \in DOMAIN Top.var_domains :
          /\ a # b
          /\ Top.value \in Range(Top.var_domains[a])
          /\ Top.value \in Range(Top.var_domains[b])

\* inference has just run in the top frame, or the call it allowed has returned
AfterInference == pc = "undo" \/ (pc = "backtrack" /\ stack # <<>>)

\* C12: the domains that inference(var, value) leaves changed are domains of
\* neighbors of var that are not in the assignment; the domain of a variable
\* already assigned and of a variable that is no neighbor is as before.
C12_InferenceFrame ==
    AfterInference =>
        \A neighbor \in DOMAIN domains :
            domains[neighbor] # Top.domains_before[neighbor] =>
                /\ neighbor \in Keys(constraints[Top.var])
                /\ neighbor \notin DOMAIN assignment

-----------------------------------------------------------------------------
(* Variable selection *)

\* select_unassigned_variable has just returned the variable of the top frame
AfterSelect == pc = "for" /\ Top.index = 0

Unassigned == {var \in Range(variables) : var \notin DOMAIN assignment}

\* the variables that tie on the minimal list length
MrvTied == {var \in Unassigned :
               \A other \in Unassigned : Len(domains[var]) <= Len(domains[other])}

\* the neighbors of var whose board value is still 0
BlankNeighbors(var) == {cell \in Keys(constraints[var]) : At(board, cell) = 0}

\* C13: select_unassigned_variable returns an unassigned variable whose list
\* is of minimal length among the unassigned variables, and among those that
\* tie on that length one with the largest number of neighbors whose board
\* value is still 0.
C13_Selection ==
    AfterSelect =>
        /\ Top.var \in MrvTied
        /\ \A other \in MrvTied :
              Cardinality(BlankNeighbors(other)) <= Cardinality(BlankNeighbors(Top.var))

-----------------------------------------------------------------------------
(* The constraint maps *)

\* the cells that share the row, the column or the 3x3 box of var
Peers(var) ==
    {cell \in Rows \X Cols :
        /\ cell # var
        /\ \/ cell[1] = var[1]
           \/ cell[2] = var[2]
           \/ /\ cell[1] \div subgrid = var[1] \div subgrid
              /\ cell[2] \div subgrid = var[2] \div subgrid}

\* the marker the input file puts between two cells, 0 when they are not
\* directly adjacent
MarkerOf(a, b) ==
    CASE a[1] = b[1] /\ b[2] = a[2] + 1 -> horizontal[a[1]][a[2]]
      [] a[1] = b[1] /\ a[2] = b[2] + 1 -> horizontal[b[1]][b[2]]
      [] a[2] = b[2] /\ b[1] = a[1] + 1 -> vertical[a[1]][a[2]]
      [] a[2] = b[2] /\ a[1] = b[1] + 1 -> vertical[b[1]][b[2]]
      [] OTHER -> 0

\* C14: the keys of the constraint map of every variable are exactly its 20
\* peers, each recorded once, with the kind of the marker when a nonzero
\* marker lies between the two cells and kind 3 otherwise.
C14_ConstraintMap ==
    pc = "set_domain" =>
        \A var \in Range(variables) :
            /\ Keys(constraints[var]) = Peers(var)
            /\ Len(constraints[var]) = 20
            /\ \A i \in 1..Len(constraints[var]) :
                  constraints[var][i].kind =
                      IF MarkerOf(var, constraints[var][i].cell) # 0
                      THEN MarkerOf(var, constraints[var][i].cell)
                      ELSE 3

\* set_constraints has run on an input with a white dot and a black dot
\* next to variables
C14_Witness ==
    /\ pc = "set_domain"
    /\ \E var, other \in Range(variables) :
          \E i \in 1..Len(constraints[var]), j \in 1..Len(constraints[other]) :
              constraints[var][i].kind = 1 /\ constraints[other][j].kind = 2

-----------------------------------------------------------------------------
(* What the search leaves behind *)

\* C15: when the top-level call of backtrack has returned None, the
\* assignment is empty, the board is the input board cell for cell, and the
\* domain map is the one set_domain computed.
C15_FailureLeavesNoTrace ==
    Failed =>
        /\ assignment = <<>>
        /\ board = input_board
        /\ domains = set_domain(variables, constraints, input_board)

\* a failure on an input of three or more variables whose lists all start
\* non-empty, so that values were assigned, pruned and undone before it
C15_Witness ==
    /\ Failed
    /\ Len(variables) >= 3
    /\ \A var \in Range(variables) : Len(domains[var]) >= 1
    /\ \E var \in Range(variables) : Len(domains[var]) >= 2

-----------------------------------------------------------------------------
(* The for loop over the live list *)

\* C16: in every frame the values tried so far are the first values of the
\* list the variable had when the frame was entered, one per position and in
\* the order of that list, which is ascending; whenever the loop is at its head
\* the live list is that list again, so that the loop ends exactly when every
\* value of it has been tried.
C16_ValuesTried ==
    \A k \in 1..Len(stack) :
        LET frame == stack[k]
        IN  /\ StrictlyAscending(frame.list_at_entry)
            /\ frame.index <= Len(frame.list_at_entry)
            /\ frame.index >= 1 => frame.value = frame.list_at_entry[frame.index]
            /\ (k = Len(stack) /\ pc = "for") =>
                  order_domain_values(domains, frame.var) = frame.list_at_entry

\* a frame is at its second value or later, after a failure returned from a
\* deeper frame, while a deeper frame has values of the list it iterates
\* over removed
C16_Witness ==
    /\ retval = "None"
    /\ \E k \in 1..(Len(stack) - 1) :
          /\ stack[k].index >= 2
          /\ Len(domains[stack[k].var]) < Len(stack[k].list_at_entry)

-----------------------------------------------------------------------------
(* Input files whose marker grids hold a value outside {0, 1, 2} *)

ReadFileAnyMarker == read_file({0, 1, 2, 4})

NextAnyMarker ==
    \/ ReadFileAnyMarker
    \/ SetVariables
    \/ SetConstraints
    \/ SetDomain
    \/ BacktrackComplete
    \/ BacktrackSelect
    \/ ForTry
    \/ ForExhausted
    \/ FrameReturnSolution
    \/ FrameReturnNone
    \/ Undo
    \/ SolveReturn

SpecAnyMarker == Init /\ [][NextAnyMarker]_vars

\* the pairs of directly adjacent cells, left or upper cell first
AdjacentPairs ==
    {<<a, b>> \in (Rows \X Cols) \X (Rows \X Cols) :
        \/ a[1] = b[1] /\ b[2] = a[2] + 1
        \/ a[2] = b[2] /\ b[1] = a[1] + 1}

\* C17: a marker outside {0, 1, 2} between two adjacent cells of which one or
\* both are variables leaves the pair must-differ: no board is returned in
\* which the two cells hold the same value.
C17_OutOfRangeMarker ==
    Solved =>
        \A pair \in AdjacentPairs :
            (/\ MarkerOf(pair[1], pair[2]) \notin {0, 1, 2}
             /\ \/ At(input_board, pair[1]) = 0
                \/ At(input_board, pair[2]) = 0)
                => At(board, pair[1]) # At(board, pair[2])

-----------------------------------------------------------------------------
(* Invariants of the search *)

\* backtrack is being entered
AtEntry == pc = "backtrack"

\* backtrack is returning, to a frame or to solve
AtReturn == pc = "return"

\* C18: at every entry to backtrack every value in the list of every
\* unassigned variable is compatible with the board value of every neighbor
\* that is nonzero; and the consistency test of the value the for loop is
\* about to try never fails.
C18_ForwardChecked ==
    /\ AtEntry =>
          \A var \in Unassigned :
              \A i \in 1..Len(domains[var]) :
                  \A j \in 1..Len(constraints[var]) :
                      LET neighbor_value == At(board, constraints[var][j].cell)
                      IN  neighbor_value # 0 =>
                              Compatible(domains[var][i], neighbor_value,
                                         constraints[var][j].kind)
    /\ (pc = "for" /\ Top.index < Len(domains[Top.var])) =>
          is_consistent(constraints, Top.var, domains[Top.var][Top.index + 1], board)

\* backtrack is entered at depth two with a variable left whose list lost a
\* value to inference and that has a dot constraint
C18_Witness ==
    /\ AtEntry
    /\ Len(stack) >= 2
    /\ \E var \in Unassigned :
          /\ Len(domains[var]) >= 1
          /\ Len(domains[var]) < Len(set_domain(variables, constraints, input_board)[var])
          /\ \E j \in 1..Len(constraints[var]) : constraints[var][j].kind \in {1, 2}

\* C19: at every entry to and every return from backtrack the cell of every
\* variable holds the assigned value when the variable is in the assignment
\* and 0 otherwise; and from read_file on every pre-filled cell holds its
\* input value.
C19_BoardCoherent ==
    /\ (AtEntry \/ AtReturn) =>
          \A var \in Range(variables) :
              At(board, var) = IF var \in DOMAIN assignment THEN assignment[var] ELSE 0
    /\ pc # "read_file" =>
          \A cell \in Rows \X Cols :
              At(input_board, cell) # 0 => At(board, cell) = At(input_board, cell)

\* a frame returns None at depth two or more: its variable is blank again
\* while the variables of the frames below it are still assigned
C19_Witness ==
    /\ AtReturn
    /\ retval = "None"
    /\ Len(stack) >= 2
    /\ Cardinality(DOMAIN assignment) = Len(stack)
    /\ Cardinality(DOMAIN assignment) < Len(variables)

-----------------------------------------------------------------------------
(* Termination. The program is one thread: once solve has called           *)
(* backtrack, the step of the search that is enabled is eventually taken.  *)

\* the steps of backtrack and the return to solve
Search ==
    \/ BacktrackComplete
    \/ BacktrackSelect
    \/ ForTry
    \/ ForExhausted
    \/ FrameReturnSolution
    \/ FrameReturnNone
    \/ Undo
    \/ SolveReturn

FairSpec == Spec /\ WF_vars(Search)

\* the variables of the frames on the stack
FrameVars == {stack[k].var : k \in 1..Len(stack)}

\* C20: the search, once called, ends with a board or with None; the stack
\* is never deeper than the number of variables; the frames on the stack
\* have different variables and at every entry to backtrack the assignment
\* holds exactly the variables of the frames, one per frame; and each pass of
\* the for loop that does not leave the frame moves on by one position in the
\* list.
C20_Terminates ==
    /\ [][/\ Len(stack') <= Len(variables')
          /\ Cardinality(FrameVars') = Len(stack')
          /\ AtEntry' => DOMAIN assignment' = FrameVars'
          /\ (pc = "for" /\ pc' # "return") =>
                /\ Len(stack') = Len(stack)
                /\ stack'[Len(stack)].var = Top.var
                /\ stack'[Len(stack)].index = Top.index + 1]_vars
    /\ AtFirstCall ~> (Solved \/ Failed)

\* a board is returned from the deepest possible frame of an input of four
\* or more variables, after a frame had gone on to a second value
C20_Witness ==
    /\ AtReturn
    /\ retval = "board"
    /\ Len(variables) >= 4
    /\ Len(stack) = Len(variables)
    /\ \E k \in 1..Len(stack) : stack[k].index >= 2

=============================================================================
